---- MODULE Spec2Model ----
(***************************************************************************)
(* Model of goenrichment/enrichment_stats.py: the hierarchical GO          *)
(* enrichment analysis (enrichmentAnalysis, recursiveTester,               *)
(* countGOassociations, enrichmentOneSided).                               *)
(*                                                                         *)
(* One behaviour is one call of enrichmentAnalysis.  The inputs are drawn  *)
(* in Init; the call stack of recursiveTester is explicit, one frame per   *)
(* active invocation.  The iteration order of the Python sets and dicts    *)
(* (the parents of a term, the items of gafSubset) is not fixed by the     *)
(* code, so the model picks the next element nondeterministically.         *)
(***************************************************************************)
EXTENDS Integers, FiniteSets, Sequences, TLC

\* ---------------------------------------------------------------- bounds
\* Largest number of parent links in a term graph.
MaxEdges == 2
\* Largest number of (gene, term) annotations in the background mapping.
MaxAnnot == 2
\* minGenes ranges over 1..MaxMinGenes.
MaxMinGenes == 2
\* Depth of the call stack at which the interpreter raises RecursionError.
RecursionLimit == 5
\* Largest count or size handed to enrichmentOneSided when it is called on
\* its own.
MaxCount == 4

TermIDs == {"GO1", "GO2", "GO3"}
Genes == {"g1", "g2"}
\* The key sets of GOdict that are tried (a term outside is a dangling one).
GraphDomains == {{}, {"GO1", "GO2"}, {"GO1", "GO2", "GO3"}}
\* background and subset are only used through len().
GeneSets == {{}, {"g1"}, {"g1", "g2"}}
\* threshold as a fraction <<numerator, denominator>>: 0.05 (the default), 0.5
Thresholds == {<<1, 20>>, <<1, 2>>}

\* ------------------------------------------------------ numeric helpers
Min(a, b) == IF a < b THEN a ELSE b
Max(a, b) == IF a > b THEN a ELSE b

RECURSIVE GCD(_, _)
GCD(a, b) == IF b = 0 THEN a ELSE GCD(b, a % b)

RECURSIVE Binom(_, _)
Binom(n, k) ==
    IF k < 0 \/ k > n THEN 0
    ELSE IF k = 0 THEN 1
    ELSE (Binom(n - 1, k - 1) * n) \div k

RECURSIVE SumTail(_, _, _, _, _)
\* sum over i in lo..hi of C(n, i) * C(M - n, N - i)
SumTail(lo, hi, M, n, N) ==
    IF lo > hi THEN 0
    ELSE Binom(n, lo) * Binom(M - n, N - lo) + SumTail(lo + 1, hi, M, n, N)

\* A p-value: nan, or the fraction num/den in lowest terms.
NaN == [nan |-> TRUE, num |-> 0, den |-> 1]
Frac(a, b) == LET g == GCD(a, b) IN [nan |-> FALSE, num |-> a \div g, den |-> b \div g]

\* scipy.stats.hypergeom.sf(k, M, n, N): nan when the shape parameters fail
\* the argument check, 1 below the support, 0 at or above its upper end,
\* otherwise P(X > k).
HypergeomSF(k, M, n, N) ==
    IF ~(M > 0 /\ n >= 0 /\ N >= 0 /\ n <= M /\ N <= M) THEN NaN
    ELSE LET a == Max(N - (M - n), 0)
             b == Min(n, N)
         IN IF k < a THEN Frac(1, 1)
            ELSE IF k >= b THEN Frac(0, 1)
            ELSE Frac(SumTail(k + 1, b, M, n, N), Binom(M, N))

\* pVal > threshold as Python evaluates it on floats: False when pVal is nan.
GreaterThan(pVal, th) == ~pVal.nan /\ pVal.num * th[2] > th[1] * pVal.den

\* ------------------------------------------------------- the functions
enrichmentOneSided(subsetGO, backgroundTotal, backgroundGO, subsetTotal) ==
    HypergeomSF(subsetGO - 1, backgroundTotal, backgroundGO, subsetTotal)

IncrementPerTerm(validTerms, GOids) == Cardinality(validTerms \cap GOids)

\* if not validTerms.isdisjoint(GOids): GOcounter += 1
Increment(validTerms, GOids) == IF validTerms \cap GOids = {} THEN 0 ELSE 1

\* for gene, GOids in gaf.items(): ...
RECURSIVE CountLoop(_, _, _, _)
CountLoop(validTerms, gaf, todo, GOcounter) ==
    IF todo = {} THEN GOcounter
    ELSE LET gene == CHOOSE g \in todo : TRUE
         IN CountLoop(validTerms, gaf, todo \ {gene},
                      GOcounter + Increment(validTerms, gaf[gene]))

countGOassociations(validTerms, gaf) == CountLoop(validTerms, gaf, DOMAIN gaf, 0)

\* ------------------------------------------------------------- the state
VARIABLES
    background,   \* set of background genes (input)
    subset,       \* set of genes of interest (input)
    GOdict,       \* term -> [parents, childs] (input)
    gafDict,      \* gene -> set of terms, background (input)
    gafSubset,    \* gene -> set of terms, subset of interest (input)
    minGenes,     \* input
    threshold,    \* input, a fraction <<numerator, denominator>>
    pc,           \* position of enrichmentAnalysis: start, loop, returned, raised
    baseGOids,    \* the elements of the list baseGOids not yet iterated
    pValues,      \* the shared dictionary term -> p-value
    stack,        \* active recursiveTester invocations, innermost last
    result,       \* <<>> until enrichmentAnalysis returns, then <<pValues>>
    error,        \* the exception that left enrichmentAnalysis, or "none"
    assocCalls,   \* number of countGOassociations calls so far
    testCalls,    \* term -> number of enrichmentOneSided calls for it so far
    walkCalls,    \* term -> number of recursiveTester invocations on it so far
    driverCalls,  \* term -> number of those made by enrichmentAnalysis itself
    testArgs,     \* arguments of the latest enrichmentOneSided call of the run, or <<>>
    probe         \* a call of one function on its own: its arguments and its value

inputs == <<background, subset, GOdict, gafDict, gafSubset, minGenes, threshold>>
vars == <<background, subset, GOdict, gafDict, gafSubset, minGenes, threshold,
          pc, baseGOids, pValues, stack, result, error, assocCalls, testCalls,
          walkCalls, driverCalls, testArgs, probe>>
counters == <<assocCalls, testCalls, walkCalls, driverCalls>>

\* ------------------------------------------------------------ the inputs
\* The term graph an ontology loader builds from a set of parent links
\* <<term, parent>>: childs holds every term that reaches the term through
\* one or more parent links.
RECURSIVE Ancestors(_, _, _)
Ancestors(links, seen, n) ==
    IF n = 0 THEN seen
    ELSE Ancestors(links, seen \cup {l[2] : l \in {m \in links : m[1] \in seen}}, n - 1)

AncestorsOf(links, t) ==
    Ancestors(links, {l[2] : l \in {m \in links : m[1] = t}}, Cardinality(links))

GraphOf(dom, links) ==
    [t \in dom |-> [parents |-> {l[2] : l \in {m \in links : m[1] = t}},
                    childs  |-> {c \in dom : t \in AncestorsOf(links, c)}]]

Graphs ==
    {GraphOf(dom, links) :
        <<dom, links>> \in {dl \in GraphDomains \X SUBSET (TermIDs \X TermIDs) :
                             /\ Cardinality(dl[2]) <= MaxEdges
                             /\ \A l \in dl[2] : l[1] \in dl[1]}}

GafOf(annot) ==
    [g \in {a[1] : a \in annot} |-> {a[2] : a \in {b \in annot : b[1] = g}}]

GafDicts == {GafOf(annot) : annot \in {a \in SUBSET (Genes \X TermIDs) : Cardinality(a) <= MaxAnnot}}

Restrict(gaf, genes) == [g \in genes |-> gaf[g]]

Init ==
    /\ background \in GeneSets
    /\ subset \in GeneSets
    /\ GOdict \in Graphs
    /\ gafDict \in GafDicts
    /\ gafSubset \in {Restrict(gafDict, genes) : genes \in SUBSET DOMAIN gafDict}
    /\ minGenes \in 1..MaxMinGenes
    /\ threshold \in Thresholds
    /\ pc = "start"
    /\ baseGOids = {}
    /\ pValues = <<>>
    /\ stack = <<>>
    /\ result = <<>>
    /\ error = "none"
    /\ assocCalls = 0
    /\ testCalls = [t \in TermIDs |-> 0]
    /\ walkCalls = [t \in TermIDs |-> 0]
    /\ driverCalls = [t \in TermIDs |-> 0]
    /\ testArgs = <<>>
    /\ probe = <<>>

\* ---------------------------------------------------- enrichmentAnalysis
backgroundTotal == Cardinality(background)
subsetTotal == Cardinality(subset)

\* The (gene, GOid) pairs the list comprehension goes through.
SubsetAnnotations ==
    {ga \in Genes \X TermIDs : ga[1] \in DOMAIN gafSubset /\ ga[2] \in gafSubset[ga[1]]}

KnownAlways(GOid) == TRUE
KnownNever(GOid) == FALSE

\* GOdict[GOid] succeeds (it raises KeyError otherwise).
Known(GOid) == GOid \in DOMAIN GOdict

\* The value of GOdict[GOid]; only read where Known(GOid) holds.
TermOf(GOid) ==
    IF GOid \in DOMAIN GOdict THEN GOdict[GOid] ELSE [parents |-> {}, childs |-> {}]

IsLeafAlways(GOid) == TRUE

\* not GOdict[GOid].childs
IsLeaf(GOid) == TermOf(GOid).childs = {}

\* baseGOids = [GOid for gene, GOids in gafSubset.items() for GOid in GOids
\*              if not GOdict[GOid].childs]; GOdict[GOid] raises KeyError.
BuildFrontier ==
    /\ pc = "start"
    /\ IF \E ga \in SubsetAnnotations : ~Known(ga[2])
       THEN /\ pc' = "raised"
            /\ error' = "KeyError"
            /\ UNCHANGED baseGOids
       ELSE /\ pc' = "loop"
            /\ baseGOids' = {ga \in SubsetAnnotations : IsLeaf(ga[2])}
            /\ UNCHANGED error
    /\ UNCHANGED <<inputs, probe, testArgs, pValues, stack, result, counters>>

Frame(GOid) == [GOid |-> GOid, at |-> "enter", todo |-> {}]

\* for GOid in baseGOids: recursiveTester(GOid, ...)
DriverCall ==
    /\ pc = "loop"
    /\ stack = <<>>
    /\ \E ga \in baseGOids :
        /\ baseGOids' = baseGOids \ {ga}
        /\ stack' = <<Frame(ga[2])>>
        /\ walkCalls' = [walkCalls EXCEPT ![ga[2]] = @ + 1]
        /\ driverCalls' = [driverCalls EXCEPT ![ga[2]] = @ + 1]
    /\ UNCHANGED <<inputs, probe, testArgs, pc, pValues, result, error, assocCalls, testCalls>>

\* return pValues
DriverReturn ==
    /\ pc = "loop"
    /\ stack = <<>>
    /\ baseGOids = {}
    /\ pc' = "returned"
    /\ result' = <<pValues>>
    /\ UNCHANGED <<inputs, probe, testArgs, baseGOids, pValues, stack, error, counters>>

\* ------------------------------------------------------- recursiveTester
Top == stack[Len(stack)]
Pop == SubSeq(stack, 1, Len(stack) - 1)
Entering == pc = "loop" /\ stack # <<>> /\ Top.at = "enter"

InMemoNever(GOid) == FALSE
InMemoAny(GOid) == DOMAIN pValues # {}

\* if GOid not in pValues
InMemo(GOid) == GOid \in DOMAIN pValues

validTermsOnlySelf(GOid) == {GOid}

\* validTerms = set([GOid]); validTerms.update(GOdict[GOid].childs)
validTermsOf(GOid) == {GOid} \cup TermOf(GOid).childs

InsufficientOffByOne(backgroundGO) == backgroundGO + 1 < minGenes

\* if backgroundGO < minGenes
Insufficient(backgroundGO) == backgroundGO < minGenes

NotSignificantOrEqual(pVal) == ~pVal.nan /\ pVal.num * threshold[2] >= threshold[1] * pVal.den

\* if pVal > threshold
NotSignificant(pVal) == GreaterThan(pVal, threshold)

\* The term already has a p-value: the invocation returns at once.
MemoReturn ==
    /\ Entering
    /\ InMemo(Top.GOid)
    /\ stack' = Pop
    /\ UNCHANGED <<inputs, probe, testArgs, pc, baseGOids, pValues, result, error, counters>>

\* GOdict[GOid] raises KeyError, which nothing catches.
LookupFail ==
    /\ Entering
    /\ ~InMemo(Top.GOid)
    /\ ~Known(Top.GOid)
    /\ pc' = "raised"
    /\ error' = "KeyError"
    /\ stack' = <<>>
    /\ UNCHANGED <<inputs, probe, testArgs, baseGOids, pValues, result, counters>>

\* Too few background genes: nothing is recorded, the parents are next.
SkipTerm ==
    /\ Entering
    /\ ~InMemo(Top.GOid)
    /\ Known(Top.GOid)
    /\ LET GOid == Top.GOid
           backgroundGO == countGOassociations(validTermsOf(GOid), gafDict)
       IN /\ Insufficient(backgroundGO)
          /\ stack' = [stack EXCEPT ![Len(stack)] =
                          [GOid |-> GOid, at |-> "parents", todo |-> TermOf(GOid).parents]]
    /\ assocCalls' = assocCalls + 2
    /\ UNCHANGED <<inputs, probe, testArgs, pc, baseGOids, pValues, result, error, testCalls,
                   walkCalls, driverCalls>>

\* Enough background genes: the p-value is recorded; the parents are next
\* only when it is above the threshold.
TestTerm ==
    /\ Entering
    /\ ~InMemo(Top.GOid)
    /\ Known(Top.GOid)
    /\ LET GOid == Top.GOid
           backgroundGO == countGOassociations(validTermsOf(GOid), gafDict)
           subsetGO == countGOassociations(validTermsOf(GOid), gafSubset)
           pVal == enrichmentOneSided(subsetGO, backgroundTotal, backgroundGO, subsetTotal)
       IN /\ ~Insufficient(backgroundGO)
          /\ pValues' = [t \in DOMAIN pValues \cup {GOid} |->
                            IF t = GOid THEN pVal ELSE pValues[t]]
          /\ testCalls' = [testCalls EXCEPT ![GOid] = @ + 1]
          /\ testArgs' = <<subsetGO, backgroundTotal, backgroundGO, subsetTotal>>
          /\ IF NotSignificant(pVal)
             THEN stack' = [stack EXCEPT ![Len(stack)] =
                          [GOid |-> GOid, at |-> "parents", todo |-> TermOf(GOid).parents]]
             ELSE stack' = Pop
    /\ assocCalls' = assocCalls + 2
    /\ UNCHANGED <<inputs, probe, pc, baseGOids, result, error, walkCalls, driverCalls>>

InParents == pc = "loop" /\ stack # <<>> /\ Top.at = "parents"

\* for parent in GOdict[GOid].parents: recursiveTester(parent, ...)
ParentCall ==
    /\ InParents
    /\ Len(stack) < RecursionLimit
    /\ \E parent \in Top.todo :
        /\ stack' = Append([stack EXCEPT ![Len(stack)].todo = @ \ {parent}], Frame(parent))
        /\ walkCalls' = [walkCalls EXCEPT ![parent] = @ + 1]
    /\ UNCHANGED <<inputs, probe, testArgs, pc, baseGOids, pValues, result, error, assocCalls, testCalls,
                   driverCalls>>

\* The call stack is full: the interpreter raises RecursionError.
StackOverflow ==
    /\ InParents
    /\ Len(stack) >= RecursionLimit
    /\ Top.todo # {}
    /\ pc' = "raised"
    /\ error' = "RecursionError"
    /\ stack' = <<>>
    /\ UNCHANGED <<inputs, probe, testArgs, baseGOids, pValues, result, counters>>

\* The loop over the parents is over: the invocation returns.
FrameReturn ==
    /\ InParents
    /\ Top.todo = {}
    /\ stack' = Pop
    /\ UNCHANGED <<inputs, probe, testArgs, pc, baseGOids, pValues, result, error, counters>>

Next ==
    \/ BuildFrontier
    \/ DriverCall
    \/ DriverReturn
    \/ MemoReturn
    \/ LookupFail
    \/ SkipTerm
    \/ TestTerm
    \/ ParentCall
    \/ StackOverflow
    \/ FrameReturn

Spec == Init /\ [][Next]_vars

\* The runs on two background genes, one of them of interest, at the
\* threshold 1/2: the p-values 0, 1/2 and 1 occur, so that both branches of
\* the significance test are taken.  Every graph and every pair of mappings
\* of Init is kept.
InitTwoGenes == Init /\ background = Genes /\ subset = {"g1"} /\ threshold = <<1, 2>>

\* The interpreter runs the one thread of the analysis until it returns or
\* raises: a step that can be taken is taken.
FairSpec == InitTwoGenes /\ [][Next]_vars /\ WF_vars(Next)

\* ------------------------------------------- the functions on their own
\* The state of the analysis while a single function is called on its own.
mainVars == <<inputs, pc, baseGOids, pValues, stack, result, error, counters, testArgs>>

MainIdle ==
    /\ background = {}
    /\ subset = {}
    /\ GOdict = <<>>
    /\ gafDict = <<>>
    /\ gafSubset = <<>>
    /\ minGenes = 3
    /\ threshold = <<1, 20>>
    /\ pc = "idle"
    /\ baseGOids = {}
    /\ pValues = <<>>
    /\ stack = <<>>
    /\ result = <<>>
    /\ error = "none"
    /\ assocCalls = 0
    /\ testCalls = [t \in TermIDs |-> 0]
    /\ walkCalls = [t \in TermIDs |-> 0]
    /\ driverCalls = [t \in TermIDs |-> 0]
    /\ testArgs = <<>>

\* Gene mappings for countGOassociations: any genes, any sets of terms
\* (the empty mapping and genes without terms included).
ProbeGafs == UNION {[genes -> SUBSET TermIDs] : genes \in SUBSET Genes}

InitCount ==
    /\ MainIdle
    /\ probe \in {[args |-> <<validTerms, gaf>>, done |-> FALSE, value |-> 0] :
                    validTerms \in SUBSET TermIDs, gaf \in ProbeGafs}

\* countGOassociations(validTerms, gaf)
CallCount ==
    /\ ~probe.done
    /\ probe' = [probe EXCEPT !.done = TRUE,
                              !.value = countGOassociations(probe.args[1], probe.args[2])]
    /\ UNCHANGED mainVars

NextCount == CallCount

SpecCount == InitCount /\ [][NextCount]_vars

InitTest ==
    /\ MainIdle
    /\ probe \in {[args |-> <<subsetGO, bgTotal, backgroundGO, subTotal>>,
                    done |-> FALSE, value |-> NaN] :
                    subsetGO \in 0..MaxCount, bgTotal \in 0..MaxCount,
                    backgroundGO \in 0..MaxCount, subTotal \in 0..MaxCount}

\* enrichmentOneSided(subsetGO, backgroundTotal, backgroundGO, subsetTotal)
CallTest ==
    /\ ~probe.done
    /\ probe' = [probe EXCEPT !.done = TRUE,
                              !.value = enrichmentOneSided(probe.args[1], probe.args[2],
                                                           probe.args[3], probe.args[4])]
    /\ UNCHANGED mainVars

NextTest == CallTest

SpecTest == InitTest /\ [][NextTest]_vars

\* ============================================================ properties
\* Vocabulary of the properties, stated on the inputs and the observable
\* state only (none of it is used by the actions).
Returned == pc = "returned"
Recorded == DOMAIN pValues

\* pVal <= threshold on floats (False for nan).
AtMostThreshold(pVal) == ~pVal.nan /\ pVal.num * threshold[2] <= threshold[1] * pVal.den

\* Genes of a mapping annotated with the term or one of its descendants.
AssociatedGenes(t, gaf) ==
    {g \in DOMAIN gaf : \E v \in gaf[g] : v = t \/ (t \in DOMAIN GOdict /\ v \in GOdict[t].childs)}

\* Terms annotated to a gene of the subset mapping.
SubsetTerms == {t \in TermIDs : \E g \in DOMAIN gafSubset : t \in gafSubset[g]}

\* Annotated terms of the subset mapping without descendants.
LeafSubsetTerms == {t \in SubsetTerms : t \in DOMAIN GOdict /\ GOdict[t].childs = {}}

ParentsIn(t) == IF t \in DOMAIN GOdict THEN GOdict[t].parents ELSE {}

\* Terms reached from the start terms along parent links that leave only
\* terms of `through`.
RECURSIVE ReachVia(_, _, _)
ReachVia(start, through, n) ==
    IF n = 0 THEN start
    ELSE ReachVia(start \cup UNION {ParentsIn(t) : t \in start \cap through}, through, n - 1)

\* Terms reachable from the frontier without going through term t.
ReachableAvoiding(t) == ReachVia(LeafSubsetTerms, TermIDs \ {t}, Cardinality(TermIDs))

\* C1 (pruning): the invocation that records a p-value <= threshold for a
\* term returns at that point, without an invocation on any parent; and when
\* enrichmentAnalysis has returned, a parent of such a term that the frontier
\* reaches only through the term has no entry in the result.
C1_Pruning ==
    /\ [][\A t \in TermIDs :
            (t \notin DOMAIN pValues /\ t \in DOMAIN pValues' /\ AtMostThreshold(pValues'[t]))
                => (stack' = Pop /\ walkCalls' = walkCalls)]_vars
    /\ [](Returned =>
            \A t \in Recorded : AtMostThreshold(pValues[t]) =>
                \A p \in ParentsIn(t) : p \notin ReachableAvoiding(t) => p \notin DOMAIN result[1])

\* A significant term was recorded with p-value equal to the threshold, and
\* its parent, which has enough background genes to be tested, was pruned.
C1_Witness ==
    /\ Returned
    /\ \E t \in Recorded :
        /\ ~pValues[t].nan
        /\ pValues[t].num * threshold[2] = threshold[1] * pValues[t].den
        /\ \E p \in ParentsIn(t) :
            /\ p \in DOMAIN GOdict
            /\ p \notin ReachableAvoiding(t)
            /\ Cardinality(AssociatedGenes(p, gafDict)) >= minGenes
            /\ p \notin DOMAIN result[1]

\* C2 (evidence gate): in every state, every key of the result map is a
\* term with at least minGenes background genes associated with the term or
\* one of its descendants.
C2_EvidenceGate ==
    \A t \in Recorded : Cardinality(AssociatedGenes(t, gafDict)) >= minGenes

\* A frontier term with too few background genes was walked and skipped;
\* the walk went on to a parent, which was recorded.
C2_Witness ==
    /\ Returned
    /\ \E t \in LeafSubsetTerms :
        /\ Cardinality(AssociatedGenes(t, gafDict)) < minGenes
        /\ walkCalls[t] > 0
        /\ t \notin Recorded
        /\ \E p \in ParentsIn(t) : p \in Recorded

\* C3 (memo check): an invocation on a term that already has an entry
\* returns at once: the result map, the number of association counts and of
\* term tests are unchanged and no further invocation is made.
C3_MemoCheck ==
    [][(pc = "loop" /\ stack # <<>> /\ Top.at = "enter" /\ Top.GOid \in DOMAIN pValues)
        => /\ stack' = Pop
           /\ pValues' = pValues
           /\ assocCalls' = assocCalls
           /\ testCalls' = testCalls
           /\ walkCalls' = walkCalls
           /\ pc' = pc]_vars

\* recursiveTester has just been invoked, from a parent loop, on a term that
\* already has an entry.
C3_Witness ==
    /\ pc = "loop"
    /\ Len(stack) >= 2
    /\ Top.at = "enter"
    /\ Top.GOid \in DOMAIN pValues

\* C4 (termination): no invocation chain exhausts the call stack, whatever
\* the parent links are; the memo check stops every chain.
C4_NoUnboundedRecursion == error # "RecursionError"

\* The order-free description of a run.  A walked term hands the walk on to
\* its parents when it has too few background genes or a p-value above the
\* threshold.
BackgroundHits(t) == Cardinality(AssociatedGenes(t, gafDict))
SubsetHits(t) == Cardinality(AssociatedGenes(t, gafSubset))
PValueOf(t) == HypergeomSF(SubsetHits(t) - 1, Cardinality(background), BackgroundHits(t),
                           Cardinality(subset))
HandsOn(t) == BackgroundHits(t) < minGenes \/ GreaterThan(PValueOf(t), threshold)
Walked == ReachVia(LeafSubsetTerms, {t \in TermIDs : HandsOn(t)}, Cardinality(TermIDs))
ExpectedResult == [t \in {w \in Walked : BackgroundHits(w) >= minGenes} |-> PValueOf(t)]

\* C5 (order independence): the map enrichmentAnalysis returns is determined
\* by the inputs alone: for every order of the frontier terms and of the
\* parents of a term it is the same map, the one described order-free above.
C5_OrderIndependent == Returned => result[1] = ExpectedResult

\* A run with two frontier terms whose walks met: both have an entry with a
\* p-value above the threshold, and their common parent was invoked twice.
C5_Witness ==
    /\ Returned
    /\ \E t, u \in LeafSubsetTerms \cap DOMAIN result[1] :
        /\ t # u
        /\ GreaterThan(result[1][t], threshold)
        /\ GreaterThan(result[1][u], threshold)
        /\ \E p \in ParentsIn(t) \cap ParentsIn(u) : walkCalls[p] >= 2

\* C6 (write-once): a step never removes or changes an entry of the result
\* map, and no term is tested more than once in a run.
C6_WriteOnce ==
    /\ [][\A t \in DOMAIN pValues : t \in DOMAIN pValues' /\ pValues'[t] = pValues[t]]_vars
    /\ [](\A t \in TermIDs : testCalls[t] <= 1)

\* A term was invoked more than once and tested once.
C6_Witness ==
    /\ Returned
    /\ \E t \in Recorded : walkCalls[t] >= 2 /\ testCalls[t] = 1

\* Terms on which enrichmentAnalysis itself has started a walk.
Started == {t \in TermIDs : driverCalls[t] > 0}

\* C7 (frontier selection): a walk is only ever started on a term that is
\* annotated in the subset mapping and has no descendants, and when
\* enrichmentAnalysis returns it has started one on every such term.
C7_Frontier ==
    /\ Started \subseteq LeafSubsetTerms
    /\ Returned => Started = LeafSubsetTerms

\* A term with descendants is annotated in the subset while none of its
\* descendants is: no walk started on it (and none reached it), though walks
\* were started on other terms.
C7_Witness ==
    /\ Returned
    /\ Started # {}
    /\ \E t \in SubsetTerms :
        /\ GOdict[t].childs # {}
        /\ GOdict[t].childs \cap SubsetTerms = {}
        /\ walkCalls[t] = 0

\* C8 (dangling term in the walker): an invocation on a term without entry
\* that is absent from the graph raises KeyError and records nothing; once an
\* error has been raised no further step is taken and no result is returned.
C8_DanglingAborts ==
    /\ [][(pc = "loop" /\ stack # <<>> /\ Top.at = "enter"
            /\ Top.GOid \notin DOMAIN pValues /\ Top.GOid \notin DOMAIN GOdict)
          => (pc' = "raised" /\ error' = "KeyError" /\ pValues' = pValues /\ result' = <<>>)]_vars
    /\ [][pc # "raised"]_vars
    /\ [](pc = "raised" => result = <<>>)

\* The walker raised KeyError on a dangling parent after entries had been
\* recorded; nothing was returned.
C8_Witness ==
    /\ pc = "raised"
    /\ error = "KeyError"
    /\ Recorded # {}
    /\ \E t \in TermIDs : walkCalls[t] > 0 /\ t \notin DOMAIN GOdict
    /\ result = <<>>

\* A term that the graph or a mapping mentions and the graph does not have.
DanglingTerms ==
    (UNION {GOdict[t].parents \cup GOdict[t].childs : t \in DOMAIN GOdict}
       \cup UNION {gafDict[g] : g \in DOMAIN gafDict}
       \cup SubsetTerms) \ DOMAIN GOdict

\* C9 (data-integrity abort): a run whose inputs mention a term that is
\* absent from the graph never returns a result.
C9_DanglingInputAborts == DanglingTerms # {} => ~Returned

EmptyInput == background = {} \/ subset = {} \/ DOMAIN GOdict = {}

OnCycle(t) == t \in ReachVia(ParentsIn(t), TermIDs, Cardinality(TermIDs))

TestPreconditions(args) ==
    LET k == args[1]
        M == args[2]
        n == args[3]
        N == args[4]
    IN /\ 0 <= n /\ n <= M
       /\ 0 <= N /\ N <= M
       /\ 0 <= k /\ k <= N /\ k <= n

\* C11 (term test fails fast): once enrichmentOneSided has been called with
\* counts that violate its preconditions the run has ended in an error; no
\* p-value was recorded for such a call.
C11_FailsFast == (testArgs # <<>> /\ ~TestPreconditions(testArgs)) => pc = "raised"

\* C12 (association counting): countGOassociations(validTerms, gaf) is the
\* number of genes of gaf with at least one term in validTerms, each gene
\* counted once; it is 0 when validTerms or gaf is empty; the call leaves
\* both arguments as they were.
C12_AssociationCount ==
    /\ [](probe.done =>
            LET validTerms == probe.args[1]
                gaf == probe.args[2]
            IN /\ probe.value = Cardinality({g \in DOMAIN gaf : \E t \in gaf[g] : t \in validTerms})
               /\ (validTerms = {} \/ DOMAIN gaf = {}) => probe.value = 0)
    /\ [][probe'.args = probe.args]_vars

\* A call counted one gene that shares two terms with validTerms once, and
\* left out a gene that shares none.
C12_Witness ==
    /\ probe.done
    /\ probe.value = 1
    /\ \E g \in DOMAIN probe.args[2] : Cardinality(probe.args[2][g] \cap probe.args[1]) = 2
    /\ \E g \in DOMAIN probe.args[2] :
        probe.args[2][g] # {} /\ probe.args[2][g] \cap probe.args[1] = {}

\* The hypergeometric tail by its definition, through the lower tail:
\* P(X >= k) = 1 - sum over i < k of C(n, i) C(M - n, N - i) / C(M, N).
RECURSIVE Factorial(_)
Factorial(n) == IF n <= 0 THEN 1 ELSE n * Factorial(n - 1)
Choose(n, k) == IF k < 0 \/ k > n THEN 0 ELSE Factorial(n) \div (Factorial(k) * Factorial(n - k))
RECURSIVE LowerTail(_, _, _, _)
LowerTail(k, M, n, N) ==
    IF k <= 0 THEN 0 ELSE Choose(n, k - 1) * Choose(M - n, N - k + 1) + LowerTail(k - 1, M, n, N)

\* pVal = P(X >= k) for X hypergeometric(M, n, N)
IsTail(pVal, k, M, n, N) ==
    /\ ~pVal.nan
    /\ pVal.num * Choose(M, N) = pVal.den * (Choose(M, N) - LowerTail(k, M, n, N))

AtMost(p, q) == ~p.nan /\ ~q.nan /\ p.num * q.den <= q.num * p.den

\* C13 (hypergeometric test value): for counts within the preconditions the
\* value of enrichmentOneSided is P(X >= subsetHits); it is 1 when
\* subsetHits = 0, and when subsetHits = backgroundHits = subsetSize no
\* other subsetHits within the preconditions gives a smaller value.
C13_TestValue ==
    (probe.done /\ TestPreconditions(probe.args)) =>
        LET k == probe.args[1]
            M == probe.args[2]
            n == probe.args[3]
            N == probe.args[4]
        IN /\ IsTail(probe.value, k, M, n, N)
           /\ k = 0 => (~probe.value.nan /\ probe.value.num = probe.value.den)
           /\ (k = n /\ k = N) =>
                \A j \in 0..k : AtMost(probe.value, enrichmentOneSided(j, M, n, N))

\* The value is right whenever the background has at least one gene: the
\* empty background is the only case in which C13_TestValue fails.
TestValueNonEmpty == probe.args[2] >= 1 => C13_TestValue

\* An acyclic term graph in which every term that a parent link, a
\* descendant set or an annotation mentions is present.
WellFormed == DanglingTerms = {} /\ \A t \in DOMAIN GOdict : ~OnCycle(t)

\* C14 (completion on well-formed input): a run on a well-formed input
\* eventually returns, and what it returns is the accumulated result map.
C14_Completes == WellFormed => <>(Returned /\ result = <<pValues>> /\ stack = <<>> /\ baseGOids = {})

\* A well-formed run returned after walking from two frontier terms up to a
\* recorded parent.
C14_Witness ==
    /\ WellFormed
    /\ Returned
    /\ Cardinality(Started) = 2
    /\ \E t \in Started : \E p \in ParentsIn(t) : p \notin Started /\ p \in DOMAIN result[1]

Acyclic == \A t \in DOMAIN GOdict : ~OnCycle(t)

\* The invocation on top of the stack has just been made on a term of the
\* graph that has no entry yet.
EnteringUnrecorded ==
    pc = "loop" /\ stack # <<>> /\ Top.at = "enter"
        /\ Top.GOid \notin DOMAIN pValues /\ Top.GOid \in DOMAIN GOdict

\* The invocation on top of the stack is going through the parents.
AtParents == pc = "loop" /\ stack # <<>> /\ Top.at = "parents"

\* C15 (upward propagation and exact key set): the invocation on a term
\* without entry goes on to the parents of the term, all of them, exactly
\* when the term has fewer than minGenes background genes or the p-value it
\* has just recorded is > threshold, and returns at once otherwise; it makes
\* one invocation per parent and returns only when none is left.  Hence, on
\* an acyclic graph, the keys of the returned map are exactly the terms with
\* at least minGenes background genes that the frontier reaches along parent
\* links through terms that are below minGenes or have a p-value > threshold.
C15_Propagation ==
    /\ [][EnteringUnrecorded =>
            LET t == Top.GOid
                handsOn == \/ BackgroundHits(t) < minGenes
                           \/ (t \in DOMAIN pValues' /\ GreaterThan(pValues'[t], threshold))
            IN /\ (t \in DOMAIN pValues') = (BackgroundHits(t) >= minGenes)
               /\ IF handsOn
                  THEN /\ Len(stack') = Len(stack)
                       /\ stack'[Len(stack)] =
                              [GOid |-> t, at |-> "parents", todo |-> GOdict[t].parents]
                  ELSE stack' = Pop]_vars
    /\ [][AtParents =>
            \/ /\ Top.todo = {}
               /\ stack' = Pop
            \/ /\ Len(stack') = Len(stack) + 1
               /\ \E parent \in Top.todo :
                    /\ stack'[Len(stack)] = [Top EXCEPT !.todo = @ \ {parent}]
                    /\ stack'[Len(stack')] = [GOid |-> parent, at |-> "enter", todo |-> {}]
                    /\ walkCalls'[parent] = walkCalls[parent] + 1
            \/ pc' = "raised"]_vars
    /\ [](Returned /\ Acyclic =>
            DOMAIN result[1] = {t \in Walked : BackgroundHits(t) >= minGenes})

\* On an acyclic graph a frontier term below minGenes handed the walk on to
\* its parent, which was recorded with a p-value above the threshold and
\* handed it on to its own parent, which was recorded as well.
C15_Witness ==
    /\ Returned
    /\ Acyclic
    /\ \E t \in Started :
        /\ BackgroundHits(t) < minGenes
        /\ t \notin DOMAIN result[1]
        /\ \E p \in ParentsIn(t) :
            /\ p \in DOMAIN result[1]
            /\ GreaterThan(result[1][p], threshold)
            /\ \E q \in ParentsIn(p) : q \in DOMAIN result[1]

\* C16 (recorded values): every entry of the returned map is the value of
\* the test on the number of subset-mapping genes and of background-mapping
\* genes associated with the term or one of its descendants, the size of the
\* background and the size of the subset.
C16_RecordedValues ==
    Returned =>
        \A t \in DOMAIN result[1] :
            result[1][t] = enrichmentOneSided(SubsetHits(t), Cardinality(background),
                                              BackgroundHits(t), Cardinality(subset))

\* The returned map has an entry, a number, for a term with descendants, and
\* a gene of each mapping is associated with the term through a descendant
\* only.
C16_Witness ==
    /\ Returned
    /\ \E t \in DOMAIN result[1] :
        /\ ~result[1][t].nan
        /\ result[1][t].num > 0
        /\ result[1][t].num < result[1][t].den
        /\ GOdict[t].childs # {}
        /\ \E g \in DOMAIN gafSubset : t \notin gafSubset[g] /\ g \in AssociatedGenes(t, gafSubset)
        /\ \E g \in DOMAIN gafDict : t \notin gafDict[g] /\ g \in AssociatedGenes(t, gafDict)

\* The inputs are consistent: the genes of interest are background genes,
\* the background mapping annotates background genes only, and the subset
\* mapping is the background mapping restricted to the genes of interest.
Consistent ==
    /\ subset \subseteq background
    /\ DOMAIN gafDict \subseteq background
    /\ DOMAIN gafSubset = subset \cap DOMAIN gafDict
    /\ \A g \in DOMAIN gafSubset : gafSubset[g] = gafDict[g]

\* C17 (preconditions of the test): on consistent inputs every call of
\* enrichmentOneSided made by recursiveTester has
\* 0 <= backgroundGO <= backgroundTotal, 0 <= subsetTotal <= backgroundTotal
\* and 0 <= subsetGO <= min(subsetTotal, backgroundGO).
C17_PreconditionsHold ==
    (Consistent /\ testArgs # <<>>) => TestPreconditions(testArgs)

\* On consistent inputs with fewer genes of interest than background genes
\* the test was called for a term with descendants and with an annotated
\* gene of interest.
C17_Witness ==
    /\ Consistent
    /\ subset # background
    /\ testArgs # <<>>
    /\ testArgs[1] >= 1
    /\ testArgs = <<Cardinality(subset \cap DOMAIN gafDict), Cardinality(background),
                    Cardinality(DOMAIN gafDict), Cardinality(subset)>>
    /\ \E t \in DOMAIN pValues : GOdict[t].childs # {}

\* C18 (one top-level walk per frontier term): the driver loop invokes
\* recursiveTester at most once on a term, however many genes of the subset
\* mapping are annotated with it, and when enrichmentAnalysis returns it has
\* invoked it exactly once on every frontier term.
C18_OneWalkPerTerm ==
    /\ \A t \in TermIDs : driverCalls[t] <= 1
    /\ Returned => \A t \in LeafSubsetTerms : driverCalls[t] = 1

====
